---- MODULE Spec2Model ----
(***************************************************************************)
(* Robust motion in-betweening: the training loop (src/train.py, train())  *)
(* and the inference loop (src/test.py, __main__ and test()) as one state  *)
(* machine.  A run is either a training run or an inference run (prog).    *)
(* Neural modules, the data set and forward kinematics are collaborators   *)
(* outside src/: a module's output is an input drawn from a small set, a   *)
(* tensor is its shape, one integer per batch sample and its provenance.   *)
(***************************************************************************)
EXTENDS Integers, Sequences, FiniteSets

\* ------------------------------------------------------------- bounds
MaxFrames  == 2     \* training_frames / test_frames range over 1..MaxFrames
MaxData    == 4     \* the test set holds 0..MaxData windows
MaxTrainData == 2   \* the training set holds 0..MaxTrainData windows
MaxEpochs  == 2     \* config['model']['epochs'] ranges over 1..MaxEpochs

BatchSizes == {1, 2}          \* config['model']['batch_size']
SaveIntervals == {1, 2}       \* config['log']['weight_save_interval']

\* ------------------------------------------------- program constants
root_v_dim  == 3    \* width of a root position / root velocity row
contact_dim == 4    \* width of a foot-contact row
num_joints  == 2    \* joints of the pruned skeleton
local_q_dim == 4 * num_joints
TrainOffset == 10   \* first frame of the predicted interval, train()
TestOffset  == 9    \* first frame of the predicted interval, test()

\* ------------------------------------------------------------ strings
\* A Python str is a sequence of characters; a character is written as
\* itself when it is ASCII and as its code point otherwise ("U+0131" is the
\* dotless i).  The alphabet is ASCII, U+0131, U+00DF and U+FB01.
LowerChars == <<"a","b","c","d","e","f","g","h","i","j","k","l","m","n","o","p",
                "q","r","s","t","u","v","w","x","y","z","U+0131">>
UpperChars == <<"A","B","C","D","E","F","G","H","I","J","K","L","M","N","O","P",
                "Q","R","S","T","U","V","W","X","Y","Z","I">>
\* Characters whose upper case is more than one character.
SpecialCasing == <<[c |-> "U+00DF", to |-> <<"S","S">>],
                   [c |-> "U+FB01", to |-> <<"F","I">>]>>

\* c.upper() for a one-character str c: a str.
UpperChar(c) ==
    IF \E i \in 1..Len(LowerChars) : LowerChars[i] = c
    THEN <<UpperChars[CHOOSE i \in 1..Len(LowerChars) : LowerChars[i] = c]>>
    ELSE IF \E i \in 1..Len(SpecialCasing) : SpecialCasing[i].c = c
    THEN SpecialCasing[CHOOSE i \in 1..Len(SpecialCasing) : SpecialCasing[i].c = c].to
    ELSE <<c>>

RECURSIVE upper(_)
\* s.upper(): every character replaced by its upper case.
upper(s) == IF s = <<>> THEN <<>> ELSE UpperChar(Head(s)) \o upper(Tail(s))

DFKI  == <<"D","F","K","I">>
LAFAN == <<"L","A","F","A","N">>
ONNX  == <<"O","N","N","X">>
PKL   == <<"P","K","L">>

\* argparse leaves an option that was not given at None.
None == [given |-> FALSE, s |-> <<>>]
Str(s) == [given |-> TRUE, s |-> s]

DatasetArgs ==
    {None, Str(DFKI), Str(<<"d","f","k","i">>), Str(LAFAN),
     Str(<<"L","a","f","a","n">>), Str(<<"x">>), Str(<<>>), Str(PKL),
     Str(<<"d","f","k","U+0131">>), Str(<<"d","U+FB01">>)}
FiletypeArgs ==
    {None, Str(ONNX), Str(<<"o","n","n","x">>), Str(PKL),
     Str(<<"P","k","l">>), Str(<<"x">>), Str(<<>>), Str(DFKI),
     Str(<<"o","n","n","b">>)}

\* ------------------------------------------------------------ tensors
\* shape: the torch shape; v: one integer per batch sample (a root row is
\* (v,0,0), a joint quaternion is (v,0,0,0)); src: what produced it.
Tensor(shape, v, src) == [shape |-> shape, v |-> v, src |-> src]
NoTensor == Tensor(<<>>, <<>>, [kind |-> "unset", at |-> 0])

GT(frame)   == [kind |-> "gt", at |-> frame]
Pred(step)  == [kind |-> "pred", at |-> step]

\* x.squeeze(): every dimension of size 1 is dropped.
squeeze(x) == [x EXCEPT !.shape = SelectSeq(x.shape, LAMBDA d : d # 1)]
\* x[0]: the leading dimension is dropped.
first(x) == [x EXCEPT !.shape = Tail(x.shape)]
\* x[i] along the leading dimension (0-based).
row(x, i) == [x EXCEPT !.shape = Tail(x.shape), !.v = <<x.v[i + 1]>>]

Max(a, b) == IF a >= b THEN a ELSE b
LeftPad(s, n) == [i \in 1..n |-> IF i <= n - Len(s) THEN 1 ELSE s[i - (n - Len(s))]]
broadcast(s1, s2) ==
    LET n == Max(Len(s1), Len(s2))
        a == LeftPad(s1, n)
        b == LeftPad(s2, n)
    IN  [i \in 1..n |-> IF a[i] = 1 THEN b[i] ELSE a[i]]
\* a + b, elementwise with broadcasting; the result is computed at `step`.
add(a, b, step) ==
    Tensor(broadcast(a.shape, b.shape),
           [i \in 1..Len(a.v) |-> a.v[i] + b.v[i]], Pred(step))

\* x / torch.norm(x, dim=-1, keepdim=True) for a quaternion (w,0,0,0):
\* the norm is |w|; a zero quaternion divides 0 by 0.
NaN == 0 - 1000
unit(w) == IF w = 0 THEN NaN ELSE IF w > 0 THEN 1 ELSE 0 - 1
normalize(x) == [x EXCEPT !.v = [i \in 1..Len(x.v) |-> unit(x.v[i])]]

\* ------------------------------------------------------- collaborators
Generator == <<"state_encoder", "offset_encoder", "target_encoder", "lstm", "decoder">>
Discriminators == <<"short_discriminator", "long_discriminator">>
Modules == {Generator[i] : i \in 1..Len(Generator)}
              \cup {Discriminators[i] : i \in 1..Len(Discriminators)}
Range(s) == {s[i] : i \in 1..Len(s)}

\* What the decoder network can emit at one step: the rotation block and the
\* root block of h_pred (the same row for every sample of the batch).  The
\* rotation block is a residual of either sign.
DecoderOutputs ==
    {[q |-> 0, root |-> 0], [q |-> 1, root |-> 1], [q |-> 0 - 1, root |-> 0]}

\* The data set: window s (1-based) holds root position 3*s + f and the unit
\* quaternion (1,0,0,0) at frame f.
RootGT(s, f) == 3 * s + f
QuatGT(s, f) == 1

\* DataLoader without drop_last: the number of batches and each batch's size.
NumBatches(len, bs) == (len + bs - 1) \div bs
BatchLen(len, bs, b) == IF (b + 1) * bs <= len THEN bs ELSE len - b * bs
SampleOf(bs, b, i) == b * bs + i
\* shuffle=False: batch b holds the next n windows in data-set order.
SequentialBatch(bs, b, n) == [i \in 1..n |-> SampleOf(bs, b, i)]
\* shuffle=True: a batch is any arrangement of n of the windows the epoch's
\* permutation has not yet handed out.
ShuffledBatches(rest, n) ==
    {b \in [1..n -> rest] : \A i, j \in 1..n : i # j => b[i] # b[j]}

\* sampled_batch[name][:, f] for a batch made of the windows `samples`.
BatchRoot(samples, f) ==
    Tensor(<<Len(samples), root_v_dim>>,
           [i \in 1..Len(samples) |-> RootGT(samples[i], f)], GT(f))
BatchQuat(samples, f) ==
    Tensor(<<Len(samples), local_q_dim>>,
           [i \in 1..Len(samples) |-> QuatGT(samples[i], f)], GT(f))
BatchRootV(n, f) == Tensor(<<n, root_v_dim>>, [i \in 1..n |-> 0], GT(f))
BatchContact(n, f) == Tensor(<<n, contact_dim>>, [i \in 1..n |-> 0], GT(f))

\* ---------------------------------------------------------------- state
VARIABLES
    cfg,                \* the loaded yaml configuration and the artifacts' state
    args,               \* argparse result of test.py
    d, f,               \* the selectors test() is called with
    warnings,           \* warnings printed by __main__
    pc,                 \* position in the program
    error,              \* the exception that ended the run, or "none"
    epoch, i_batch, t,  \* loop indices
    current_batch_size,
    undrawn,            \* windows the shuffled loader has not handed out this epoch
    sampled_batch,      \* the windows of the current batch, in batch order
    window_no,          \* rollouts started so far in this run
    root_p_offset,
    root_p_t, root_v_t, local_q_t, contact_t,
    root_pred, root_v_pred, local_q_pred, local_q_pred_, contact_pred,
    tta,
    root_pred_list, local_q_pred_list,
    files,              \* writes into the current per-sample directory
    pose_stack, img_pred,
    hidden,             \* the recurrent core's (h, c)
    target_noise, noise_draws, noise_added,
    fk_calls,           \* forward-kinematics calls of the current window
    grad,               \* per module: the losses accumulated in .grad, clipped
    events,             \* optimisation events of the current batch
    decoded,            \* decoder outputs of the current batch's rollout, in order
    loaded,             \* inference modules loaded so far
    mode,               \* per module: "train" or "eval"
    saved               \* checkpoint bundles written

cliVars    == <<args, d, f, warnings>>
loopVars   == <<epoch, i_batch, t, current_batch_size, window_no>>
poseVars   == <<root_p_offset, root_p_t, root_v_t, local_q_t, contact_t, tta>>
predVars   == <<root_pred, root_v_pred, local_q_pred, local_q_pred_, contact_pred>>
listVars   == <<root_pred_list, local_q_pred_list>>
outVars    == <<files, pose_stack, img_pred>>
noiseVars  == <<target_noise, noise_draws, noise_added>>
optVars    == <<grad, events>>
ckptVars   == <<mode, saved>>
loaderVars == <<undrawn, sampled_batch>>

\* Rollout steps executed for the current batch.
steps_done == Len(decoded)
vars == <<cfg, pc, error, loaderVars, cliVars, loopVars, poseVars, predVars, listVars, outVars,
          hidden, noiseVars, fk_calls, optVars, decoded, loaded, ckptVars>>

TrainConfigs ==
    [prog : {"train"}, batch_size : BatchSizes, training_frames : 1..MaxFrames,
     epochs : 1..MaxEpochs, data_len : 0..MaxTrainData,
     weight_save_interval : SaveIntervals, save_optimizer : BOOLEAN,
     inference_batch_index : {0}, malformed : {"none"}]
TestConfigs ==
    {c \in [prog : {"test"}, batch_size : BatchSizes, training_frames : 1..MaxFrames,
            epochs : {1}, data_len : 0..MaxData,
            weight_save_interval : {1}, save_optimizer : {FALSE},
            inference_batch_index : {0, 1}, malformed : {"none"} \cup Range(Generator)]
        : c.inference_batch_index < c.batch_size}

\* The command lines: test.py takes two options, train.py none.
CommandLines(c) ==
    IF c.prog = "test" THEN [Dataset : DatasetArgs, Filetype : FiletypeArgs]
    ELSE {[Dataset |-> None, Filetype |-> None]}

Init ==
    /\ cfg \in TrainConfigs \cup TestConfigs
    /\ args \in CommandLines(cfg)
    /\ d = <<>> /\ f = <<>> /\ warnings = <<>>
    /\ pc = IF cfg.prog = "test" THEN "main" ELSE "train"
    /\ error = "none"
    /\ epoch = 0 /\ i_batch = 0 - 1 /\ t = 0 /\ current_batch_size = 0 /\ window_no = 0
    /\ undrawn = {} /\ sampled_batch = <<>>
    /\ root_p_offset = NoTensor
    /\ root_p_t = NoTensor /\ root_v_t = NoTensor
    /\ local_q_t = NoTensor /\ contact_t = NoTensor
    /\ root_pred = NoTensor /\ root_v_pred = NoTensor /\ local_q_pred = NoTensor
    /\ local_q_pred_ = NoTensor /\ contact_pred = NoTensor
    /\ tta = 0
    /\ root_pred_list = <<>> /\ local_q_pred_list = <<>>
    /\ files = <<>> /\ pose_stack = <<>> /\ img_pred = <<>>
    /\ hidden = [window |-> 0, steps |-> 0]
    /\ target_noise = 0 /\ noise_draws = 0 /\ noise_added = <<>>
    /\ fk_calls = <<>>
    /\ grad = [m \in Modules |-> [from |-> {}, clipped |-> FALSE]]
    /\ events = <<>>
    /\ decoded = <<>>
    /\ loaded = <<>>
    /\ mode = [m \in Modules |-> "train"]
    /\ saved = <<>>

Abort(e) == pc' = "aborted" /\ error' = e

\* ------------------------------------------------- test.py: __main__
\* A valid selector passed on in the letter case it was typed in.
SelectAsGiven(arg, valid, default, warning) ==
    IF arg.given
    THEN IF upper(arg.s) = valid[1] \/ upper(arg.s) = valid[2]
         THEN [value |-> arg.s, warned |-> <<>>]
         ELSE [value |-> default, warned |-> <<warning>>]
    ELSE [value |-> default, warned |-> <<>>]

\* The selector given on the command line, or the default with a warning.
Select(arg, valid, default, warning) ==
    IF arg.given
    THEN IF upper(arg.s) = valid[1] \/ upper(arg.s) = valid[2]
         THEN [value |-> upper(arg.s), warned |-> <<>>]
         ELSE [value |-> default, warned |-> <<warning>>]
    ELSE [value |-> default, warned |-> <<>>]

Main ==
    /\ pc = "main"
    /\ LET ds == Select(args.Dataset, <<DFKI, LAFAN>>, DFKI, "dataset")
           ft == Select(args.Filetype, <<ONNX, PKL>>, ONNX, "filetype")
       IN  /\ d' = ds.value
           /\ f' = ft.value
           /\ warnings' = ds.warned \o ft.warned
    /\ pc' = "test"
    /\ UNCHANGED <<cfg, loaderVars, args, error, loopVars, poseVars, predVars, listVars, outVars,
                   hidden, noiseVars, fk_calls, optVars, decoded, loaded, ckptVars>>

\* ------------------------------------------------------ test.py: test()
window == 51

\* sampled_batch['local_q'][inference_batch_index][-1]: the last frame of the
\* data window, the window's target frame (the rotations of target.json).
last_frame == window - 1

\* Configuration, result directories, skeleton, data set and loader.
TestSetup ==
    /\ pc = "test"
    /\ pc' = "load"
    /\ UNCHANGED <<cfg, loaderVars, cliVars, error, loopVars,
                   poseVars, predVars, listVars, outVars, hidden, noiseVars, fk_calls,
                   optVars, decoded, loaded, ckptVars>>

\* Modules registered without being read or validated.
LoadModuleUnchecked ==
    /\ pc = "load"
    /\ loaded' = Append(loaded, Generator[Len(loaded) + 1])
    /\ pc' = IF Len(loaded) + 1 = Len(Generator) THEN "eval" ELSE "load"
    /\ UNCHANGED <<cfg, loaderVars, cliVars, error, loopVars, poseVars, predVars, listVars, outVars,
                   hidden, noiseVars, fk_calls, optVars, decoded, ckptVars>>

\* The five inference modules are loaded one after the other; a malformed
\* artifact raises in onnx.load / check_model / InferenceSession / torch.load.
LoadModule ==
    /\ pc = "load"
    /\ LET m == Generator[Len(loaded) + 1]
       IN  IF cfg.malformed = m
           THEN /\ Abort("LoadError")
                /\ UNCHANGED loaded
           ELSE /\ loaded' = Append(loaded, m)
                /\ pc' = IF Len(loaded) + 1 = Len(Generator) THEN "eval" ELSE "load"
                /\ UNCHANGED error
    /\ UNCHANGED <<cfg, loaderVars, cliVars, loopVars, poseVars, predVars, listVars, outVars,
                   hidden, noiseVars, fk_calls, optVars, decoded, ckptVars>>

\* Positional encoding table, then eval() on the native modules.
TestEval ==
    /\ pc = "eval"
    /\ mode' = IF f = PKL
               THEN [m \in Modules |-> IF m \in Range(Generator) THEN "eval" ELSE mode[m]]
               ELSE mode
    /\ pc' = "fetch"
    /\ UNCHANGED <<cfg, loaderVars, cliVars, error, loopVars, poseVars, predVars, listVars, outVars,
                   hidden, noiseVars, fk_calls, optVars, decoded, loaded, saved>>

\* No size check at all.
TestSkipsNone(n) == FALSE

\* Whether test() leaves the batch loop on a batch of n windows.
TestSkipsBatch(n) == cfg.batch_size # n

\* The next batch of the loader, or the end of the loop.
TestFetch ==
    /\ pc = "fetch" /\ cfg.prog = "test"
    /\ IF i_batch + 1 >= NumBatches(cfg.data_len, cfg.batch_size)
       THEN /\ pc' = "done"
            /\ UNCHANGED <<loopVars, sampled_batch, root_p_offset, outVars, fk_calls, decoded,
                           noise_added>>
       ELSE LET n == BatchLen(cfg.data_len, cfg.batch_size, i_batch + 1)
            IN  /\ i_batch' = i_batch + 1
                /\ current_batch_size' = n
                /\ sampled_batch' = SequentialBatch(cfg.batch_size, i_batch + 1, n)
                /\ img_pred' = <<>>
                /\ decoded' = <<>>
                /\ fk_calls' = <<>>
                /\ noise_added' = <<>>
                /\ IF TestSkipsBatch(n)
                   THEN /\ pc' = "done"
                        /\ UNCHANGED <<epoch, t, window_no, root_p_offset, files,
                                       pose_stack>>
                   ELSE /\ pc' = "init_hidden"
                        /\ pose_stack' = <<GT(TestOffset)>>
                        /\ root_p_offset' = Tensor(<<n, root_v_dim>>, [i \in 1..n |-> 0],
                                                   GT(last_frame))
                        /\ window_no' = window_no + 1
                        /\ files' = <<>>
                        /\ t' = 0
                        /\ UNCHANGED epoch
    /\ UNCHANGED <<cfg, undrawn, cliVars, error, root_p_t, root_v_t, local_q_t, contact_t, tta,
                   predVars, listVars, hidden, target_noise, noise_draws, optVars,
                   loaded, ckptVars>>

\* lstm.init_hidden(n): the state belongs to the current window from here on.
init_hidden == [window |-> window_no, steps |-> 0]

\* Whether test() resets the recurrent state for weight format ft.
TestResets(ft) == ft = PKL

TestInitHidden ==
    /\ pc = "init_hidden" /\ cfg.prog = "test"
    /\ hidden' = IF TestResets(f) THEN init_hidden ELSE hidden
    /\ pc' = "step"
    /\ UNCHANGED <<cfg, loaderVars, cliVars, error, loopVars, poseVars, predVars, listVars, outVars,
                   noiseVars, fk_calls, optVars, decoded, loaded, ckptVars>>

\* The pose a step of test() starts from.
TestPoseInput(step, n) ==
    IF step = 0
    THEN [root_p  |-> BatchRoot(sampled_batch, step + TestOffset),
          root_v  |-> BatchRootV(n, step + TestOffset),
          local_q |-> BatchQuat(sampled_batch, step + TestOffset),
          contact |-> BatchContact(n, step + TestOffset)]
    ELSE [root_p  |-> root_pred,
          root_v  |-> first(root_v_pred),
          local_q |-> first(local_q_pred),
          contact |-> first(contact_pred)]

\* The recurrent core run once: the native module advances its own state,
\* the frozen graph is an immutable bundle.
TestLstm(ft) == IF ft = PKL THEN [hidden EXCEPT !.steps = @ + 1] ELSE hidden

\* PositionalEncoding(dimension=256, max_len=training_frames): the largest
\* time-to-arrival the table is precomputed for.
pe_max_len == cfg.training_frames

\* pe(h, tta) is a lookup in the precomputed table: defined for a
\* time-to-arrival from 0 up to the precomputed maximum.
pe_defined(x) == x \in 0..pe_max_len

\* local_q_pred.view(size(0), size(1), -1, 4)
view4(x) == [x EXCEPT !.shape = <<x.shape[1], x.shape[2], x.shape[3] \div 4, 4>>]

\* The next root position from the decoder's root block.
TestRootPred(root_v, root_p, step) == add(root_v, root_p, step)

\* The decoder's output `out` turned into the step's prediction.
TestDecode(out, in, n, step) ==
    LET local_q_v == Tensor(<<1, n, local_q_dim>>, [i \in 1..n |-> out.q], Pred(step))
        q         == add(local_q_v, in.local_q, step)
        root_v    == Tensor(<<1, n, root_v_dim>>, [i \in 1..n |-> out.root], Pred(step))
    IN  [local_q_pred  |-> q,
         local_q_pred_ |-> squeeze(normalize(view4(q))),
         root_v_pred   |-> root_v,
         root_pred     |-> squeeze(TestRootPred(root_v, in.root_p, step)),
         contact_pred  |-> Tensor(<<1, n, contact_dim>>, [i \in 1..n |-> 0], Pred(step))]

\* skeleton.forward_kinematics_with_rotation(...): one call, on `frames` frames.
FKCall(inLoop, frames) == [in_loop |-> inLoop, frames |-> frames, after |-> steps_done]

\* global_pos[inference_batch_index, training_frames-1+9]: the frame of
\* target_pose.
target_pose_frame == cfg.training_frames - 1 + TestOffset

\* The records test() writes at step `step` for the sample it exports.
TestWrites(step, p) ==
    LET smp   == sampled_batch[cfg.inference_batch_index + 1]
        start == [name |-> [dir |-> i_batch, kind |-> "start", t |-> 0],
                  local_q |-> Tensor(<<num_joints, 4>>, <<QuatGT(smp, 0)>>, GT(0)),
                  root_pos |-> Tensor(<<root_v_dim>>, <<RootGT(smp, TestOffset)>>,
                                      GT(TestOffset))]
        target == [name |-> [dir |-> i_batch, kind |-> "target", t |-> 0],
                   local_q |-> Tensor(<<num_joints, 4>>, <<QuatGT(smp, last_frame)>>,
                                      GT(last_frame)),
                   root_pos |-> Tensor(<<root_v_dim>>,
                                       <<RootGT(smp, target_pose_frame)>>,
                                       GT(target_pose_frame))]
        frame == [name |-> [dir |-> i_batch, kind |-> "frame", t |-> step],
                  local_q |-> row(p.local_q_pred_, cfg.inference_batch_index),
                  root_pos |-> row(p.root_pred, cfg.inference_batch_index)]
    IN  (IF step = 0 THEN <<start, target>> ELSE <<>>) \o <<frame>>

pop0_peek(stack) == stack

\* pose_stack.pop(0): what stays on the stack (the popped pose is its head).
pop0(stack) == Tail(stack)

\* One iteration of `for t in range(training_frames)` in test().
TestStep ==
    /\ pc = "step" /\ cfg.prog = "test"
    /\ t < cfg.training_frames
    /\ LET n  == current_batch_size
           in == TestPoseInput(t, n)
       IN  /\ root_p_t' = in.root_p
           /\ root_v_t' = in.root_v
           /\ local_q_t' = in.local_q
           /\ contact_t' = in.contact
           /\ IF root_p_offset.shape # in.root_p.shape
              THEN /\ Abort("AssertionError")
                   /\ UNCHANGED <<t, tta, predVars, outVars, hidden, fk_calls,
                                  decoded, noise_added>>
              ELSE IF ~pe_defined(cfg.training_frames - t)
              THEN /\ Abort("IndexError")
                   /\ tta' = cfg.training_frames - t
                   /\ UNCHANGED <<t, predVars, outVars, hidden, fk_calls,
                                  decoded, noise_added>>
              ELSE \E out \in DecoderOutputs :
                   LET p == TestDecode(out, in, n, t)
                   IN  /\ tta' = cfg.training_frames - t
                       /\ UNCHANGED noise_added
                       /\ hidden' = TestLstm(f)
                       /\ root_pred' = p.root_pred
                       /\ root_v_pred' = p.root_v_pred
                       /\ local_q_pred' = p.local_q_pred
                       /\ local_q_pred_' = p.local_q_pred_
                       /\ contact_pred' = p.contact_pred
                       /\ fk_calls' = Append(fk_calls, FKCall(TRUE, 1))
                       /\ IF Len(pop0(pose_stack)) # 0
                          THEN /\ Abort("AssertionError")
                               /\ pose_stack' = pop0(pose_stack)
                               /\ UNCHANGED <<files, img_pred, t, decoded>>
                          ELSE /\ pose_stack' = Append(pop0(pose_stack),
                                                       [kind |-> "fk", at |-> t])
                               /\ files' = files \o TestWrites(t, p)
                               /\ img_pred' = Append(img_pred,
                                     [t |-> t, pose |-> Head(pose_stack)])
                               /\ t' = t + 1
                               /\ decoded' = Append(decoded, out)
                               /\ UNCHANGED <<pc, error>>
    /\ UNCHANGED <<cfg, loaderVars, cliVars, epoch, i_batch, current_batch_size, window_no,
                   root_p_offset, listVars, target_noise, noise_draws, optVars,
                   loaded, ckptVars>>

\* After the last step: the window's gif is written.
TestWindowEnd ==
    /\ pc = "step" /\ cfg.prog = "test"
    /\ t = cfg.training_frames
    /\ pc' = "fetch"
    /\ UNCHANGED <<cfg, loaderVars, cliVars, error, loopVars, poseVars, predVars, listVars, outVars,
                   hidden, noiseVars, fk_calls, optVars, decoded, loaded, ckptVars>>

\* ---------------------------------------------------- train.py: train()
\* DataLoader(..., shuffle=True) builds a RandomSampler, which refuses a data
\* set without samples.
EmptyShuffled(len) == len = 0

\* Configuration, skeleton, data set and loader, the seven modules and both
\* optimizers.
TrainSetup ==
    /\ pc = "train"
    /\ epoch' = 0
    /\ IF EmptyShuffled(cfg.data_len) THEN Abort("ValueError")
       ELSE pc' = "epoch" /\ UNCHANGED error
    /\ UNCHANGED <<cfg, loaderVars, cliVars, i_batch, t, current_batch_size, window_no,
                   poseVars, predVars, listVars, outVars, hidden, noiseVars, fk_calls,
                   optVars, decoded, loaded, ckptVars>>

\* The modules train() puts in training mode at the top of an epoch.
TrainModeModules == Range(Generator)

\* for epoch in range(epochs): the modules go to training mode.
EpochStart ==
    /\ pc = "epoch"
    /\ IF epoch >= cfg.epochs
       THEN /\ pc' = "done"
            /\ UNCHANGED <<mode, i_batch, undrawn>>
       ELSE /\ mode' = [m \in Modules |-> IF m \in TrainModeModules THEN "train"
                                          ELSE mode[m]]
            /\ i_batch' = 0 - 1
            /\ undrawn' = 1..cfg.data_len
            /\ pc' = "fetch"
    /\ UNCHANGED <<cfg, sampled_batch, cliVars, error, epoch, t, current_batch_size, window_no,
                   poseVars, predVars, listVars, outVars, hidden, noiseVars, fk_calls,
                   optVars, decoded, loaded, saved>>

\* Whether train() leaves out a batch of n windows (it never compares sizes).
TrainSkipsBatch(n) == FALSE

\* for sampled_batch in batch_pbar: the batch's tensors are moved to the device.
TrainFetch ==
    /\ pc = "fetch" /\ cfg.prog = "train"
    /\ IF i_batch + 1 >= NumBatches(cfg.data_len, cfg.batch_size)
       THEN /\ pc' = "epoch_end"
            /\ UNCHANGED <<i_batch, current_batch_size, loaderVars, window_no,
                           root_p_offset, decoded, fk_calls, events, noise_added>>
       ELSE LET n == BatchLen(cfg.data_len, cfg.batch_size, i_batch + 1)
            IN  /\ i_batch' = i_batch + 1
                /\ current_batch_size' = n
                /\ \E b \in ShuffledBatches(undrawn, n) :
                      /\ sampled_batch' = b
                      /\ undrawn' = undrawn \ Range(b)
                /\ decoded' = <<>>
                /\ fk_calls' = <<>>
                /\ events' = <<>>
                /\ noise_added' = <<>>
                /\ IF TrainSkipsBatch(n)
                   THEN /\ pc' = "fetch"
                        /\ UNCHANGED <<window_no, root_p_offset>>
                   ELSE /\ pc' = "init_hidden"
                        /\ window_no' = window_no + 1
                        /\ root_p_offset' = Tensor(<<n, root_v_dim>>, [i \in 1..n |-> 0],
                                                   GT(last_frame))
    /\ UNCHANGED <<cfg, cliVars, error, epoch, t, root_p_t, root_v_t, local_q_t,
                   contact_t, tta, predVars, listVars, outVars, hidden, target_noise,
                   noise_draws, grad, loaded, ckptVars>>

TrainInitHidden ==
    /\ pc = "init_hidden" /\ cfg.prog = "train"
    /\ hidden' = init_hidden
    /\ pc' = "noise"
    /\ UNCHANGED <<cfg, loaderVars, cliVars, error, loopVars, poseVars, predVars, listVars, outVars,
                   noiseVars, fk_calls, optVars, decoded, loaded, ckptVars>>

\* torch.normal(...): every call is a fresh draw, named by its number.
draw == noise_draws + 1

\* The target noise of the window, then the empty output lists.
SampleNoise ==
    /\ pc = "noise"
    /\ target_noise' = draw
    /\ noise_draws' = draw
    /\ root_pred_list' = <<>>
    /\ local_q_pred_list' = <<>>
    /\ t' = 0
    /\ pc' = "step"
    /\ UNCHANGED <<cfg, loaderVars, cliVars, error, epoch, i_batch, current_batch_size, window_no,
                   poseVars, predVars, outVars, hidden, noise_added, fk_calls, optVars,
                   decoded, loaded, ckptVars>>

\* Teacher forcing at every step, not only the first.
TrainPoseInputTeacher(step, n) ==
    [root_p  |-> BatchRoot(sampled_batch, step + TrainOffset),
     root_v  |-> BatchRootV(n, step + TrainOffset),
     local_q |-> BatchQuat(sampled_batch, step + TrainOffset),
     contact |-> BatchContact(n, step + TrainOffset)]

\* The pose a step of train() starts from.
TrainPoseInput(step, n) ==
    IF step = 0
    THEN [root_p  |-> BatchRoot(sampled_batch, step + TrainOffset),
          root_v  |-> BatchRootV(n, step + TrainOffset),
          local_q |-> BatchQuat(sampled_batch, step + TrainOffset),
          contact |-> BatchContact(n, step + TrainOffset)]
    ELSE [root_p  |-> root_pred,
          root_v  |-> first(root_v_pred),
          local_q |-> first(local_q_pred),
          contact |-> contact_pred]

\* x[0] if x.size(1) == 1 else x.squeeze()
unbatch(x) == IF x.shape[2] = 1 THEN first(x) ELSE squeeze(x)

\* The decoder's root block taken as the absolute position.
TrainRootPredAbsolute(root_v, root_p, step) == [root_v EXCEPT !.src = Pred(step)]

\* The next root position from the decoder's root block.
TrainRootPred(root_v, root_p, step) == add(root_v, root_p, step)

\* The decoder's output `out` turned into the step's prediction.
TrainDecode(out, in, n, step) ==
    LET local_q_v == Tensor(<<1, n, local_q_dim>>, [i \in 1..n |-> out.q], Pred(step))
        q         == add(local_q_v, in.local_q, step)
        root_v    == Tensor(<<1, n, root_v_dim>>, [i \in 1..n |-> out.root], Pred(step))
    IN  [local_q_pred  |-> q,
         local_q_pred_ |-> unbatch(normalize(view4(q))),
         root_v_pred   |-> root_v,
         root_pred     |-> unbatch(TrainRootPred(root_v, in.root_p, step)),
         contact_pred  |-> unbatch(Tensor(<<1, n, contact_dim>>, [i \in 1..n |-> 0],
                                          Pred(step)))]

\* A new draw at every step.
TrainNoiseResampled(step) ==
    [id |-> target_noise + step, t |-> step, length |-> cfg.training_frames]

\* noise_injector(t, length) * target_noise, as added to offset_target.
TrainNoise(step) == [id |-> target_noise, t |-> step, length |-> cfg.training_frames]

\* One iteration of `for t in range(training_frames)` in train().
TrainStep ==
    /\ pc = "step" /\ cfg.prog = "train"
    /\ t < cfg.training_frames
    /\ LET n  == current_batch_size
           in == TrainPoseInput(t, n)
       IN  /\ root_p_t' = in.root_p
           /\ root_v_t' = in.root_v
           /\ local_q_t' = in.local_q
           /\ contact_t' = in.contact
           /\ IF root_p_offset.shape # in.root_p.shape
              THEN /\ Abort("AssertionError")
                   /\ UNCHANGED <<t, tta, predVars, listVars, hidden, decoded,
                                  noise_added>>
              ELSE IF ~pe_defined(cfg.training_frames - t)
              THEN /\ Abort("IndexError")
                   /\ tta' = cfg.training_frames - t
                   /\ UNCHANGED <<t, predVars, listVars, hidden, decoded,
                                  noise_added>>
              ELSE \E out \in DecoderOutputs :
                   LET p == TrainDecode(out, in, n, t)
                   IN  /\ tta' = cfg.training_frames - t
                       /\ noise_added' = Append(noise_added, TrainNoise(t))
                       /\ hidden' = [hidden EXCEPT !.steps = @ + 1]
                       /\ root_pred' = p.root_pred
                       /\ root_v_pred' = p.root_v_pred
                       /\ local_q_pred' = p.local_q_pred
                       /\ local_q_pred_' = p.local_q_pred_
                       /\ contact_pred' = p.contact_pred
                       /\ root_pred_list' = Append(root_pred_list, p.root_pred)
                       /\ local_q_pred_list' = Append(local_q_pred_list, p.local_q_pred_)
                       /\ t' = t + 1
                       /\ decoded' = Append(decoded, out)
                       /\ UNCHANGED <<pc, error>>
    /\ UNCHANGED <<cfg, loaderVars, cliVars, epoch, i_batch, current_batch_size, window_no,
                   root_p_offset, outVars, target_noise, noise_draws, fk_calls, optVars,
                   loaded, ckptVars>>

\* Forward kinematics once per stacked frame.
TrainFKPerFrame ==
    /\ pc = "step" /\ cfg.prog = "train"
    /\ t = cfg.training_frames
    /\ fk_calls' = fk_calls \o [k \in 1..Len(root_pred_list) |-> FKCall(FALSE, 1)]
    /\ pc' = "d_zero_grad"
    /\ UNCHANGED <<cfg, loaderVars, cliVars, error, loopVars, poseVars, predVars, listVars, outVars,
                   hidden, noiseVars, optVars, decoded, loaded, ckptVars>>

\* After the loop: the lists are stacked, forward kinematics runs on the
\* stacked sequence and the reconstruction losses are computed.
TrainFK ==
    /\ pc = "step" /\ cfg.prog = "train"
    /\ t = cfg.training_frames
    /\ fk_calls' = Append(fk_calls, FKCall(FALSE, Len(root_pred_list)))
    /\ pc' = "d_zero_grad"
    /\ UNCHANGED <<cfg, loaderVars, cliVars, error, loopVars, poseVars, predVars, listVars, outVars,
                   hidden, noiseVars, optVars, decoded, loaded, ckptVars>>

\* ------------------------------------------- train.py: the two updates
GeneratorParams == Range(Generator)
DiscriminatorParams == Range(Discriminators)

Event(name, ms) == [ev |-> name, modules |-> ms]

\* optimizer.zero_grad() over the optimizer's parameters.
ZeroGrad(params) ==
    [m \in Modules |-> IF m \in params THEN [from |-> {}, clipped |-> FALSE] ELSE grad[m]]
\* loss.backward(): the loss is accumulated in .grad of every module of its graph.
Backward(loss, graph) ==
    [m \in Modules |-> IF m \in graph
                       THEN [from |-> grad[m].from \cup {loss}, clipped |-> FALSE]
                       ELSE grad[m]]
\* A discriminator loss on the generator output that was not detached.
LossGraphAttached(detached) == Modules

\* The modules a loss on the discriminators' output reaches: with the
\* generator output detached only the discriminators, else all seven.
LossGraph(detached) == IF detached THEN DiscriminatorParams ELSE Modules
\* clip_grad_norm_(m.parameters(), 1.0) for every module of ms.
Clip(ms) ==
    [m \in Modules |-> IF m \in ms THEN [grad[m] EXCEPT !.clipped = TRUE] ELSE grad[m]]
\* The modules whose gradients are unclipped when the optimizer over params steps.
Unclipped(params) == {m \in params : ~grad[m].clipped}

OptStep(at, next, g, e) ==
    /\ pc = at
    /\ grad' = g
    /\ events' = Append(events, e)
    /\ pc' = next
    /\ UNCHANGED <<cfg, loaderVars, cliVars, error, loopVars, poseVars, predVars, listVars, outVars,
                   hidden, noiseVars, fk_calls, decoded, loaded, ckptVars>>

DZeroGrad == OptStep("d_zero_grad", "d_loss", ZeroGrad(DiscriminatorParams),
                     Event("d_zero_grad", DiscriminatorParams))
\* Both discriminators on fake_input.detach() and on real_input.
DLoss == OptStep("d_loss", "d_backward", grad, Event("d_loss", LossGraph(TRUE)))
DBackward == OptStep("d_backward", "d_step", Backward("D", LossGraph(TRUE)),
                     Event("d_backward", LossGraph(TRUE)))
DStep == OptStep("d_step", "g_zero_grad", grad,
                 Event("d_step", Unclipped(DiscriminatorParams)))
GZeroGrad == OptStep("g_zero_grad", "g_loss", ZeroGrad(GeneratorParams),
                     Event("g_zero_grad", GeneratorParams))
\* The weighted reconstruction terms plus both discriminators on fake_input.
GLoss == OptStep("g_loss", "g_backward", grad, Event("g_loss", LossGraph(FALSE)))
GBackward == OptStep("g_backward", "clip", Backward("G", LossGraph(FALSE)),
                     Event("g_backward", LossGraph(FALSE)))
\* The modules whose gradients train() clips before generator_optimizer.step().
Clipped == Modules
ClipGrads == OptStep("clip", "g_step", Clip(Clipped), Event("clip", Clipped))
GStep == OptStep("g_step", "fetch", grad, Event("g_step", Unclipped(GeneratorParams)))

\* ------------------------------------------ train.py: end of an epoch
BundleGeneratorOnly(n) ==
    [epoch |-> n, pkl |-> Range(Generator)]

\* The bundle saved after epoch n (1-based).
Bundle(n) ==
    [epoch |-> n,
     pkl |-> Modules \cup (IF cfg.save_optimizer
                           THEN {"generator_optimizer", "discriminator_optimizer"}
                           ELSE {})]

\* Checkpoint and frozen-graph export when the epoch is a multiple of the
\* save interval.  The export runs the modules on state_input, ...,
\* real_input of the epoch's last batch.
EpochEnd ==
    /\ pc = "epoch_end"
    /\ IF (epoch + 1) % cfg.weight_save_interval = 0
       THEN /\ saved' = Append(saved, Bundle(epoch + 1))
            /\ mode' = [m \in Modules |-> "eval"]
            /\ hidden' = [hidden EXCEPT !.steps = @ + 1]
       ELSE UNCHANGED <<mode, saved, hidden>>
    /\ epoch' = epoch + 1
    /\ pc' = "epoch"
    /\ UNCHANGED <<cfg, loaderVars, cliVars, error, i_batch, t, current_batch_size,
                   window_no, poseVars, predVars, listVars, outVars, noiseVars,
                   fk_calls, optVars, decoded, loaded>>

TestNext ==
    \/ Main \/ TestSetup \/ LoadModule \/ TestEval \/ TestFetch
    \/ TestInitHidden \/ TestStep \/ TestWindowEnd

TrainNext ==
    \/ TrainSetup \/ EpochStart \/ TrainFetch \/ TrainInitHidden \/ SampleNoise
    \/ TrainStep \/ TrainFK
    \/ DZeroGrad \/ DLoss \/ DBackward \/ DStep
    \/ GZeroGrad \/ GLoss \/ GBackward \/ ClipGrads \/ GStep
    \/ EpochEnd

Next == TestNext \/ TrainNext
Spec == Init /\ [][Next]_vars
\* ------------------------------------------------------------ properties
OptPhases == {"d_zero_grad", "d_loss", "d_backward", "d_step", "g_zero_grad",
              "g_loss", "g_backward", "clip", "g_step"}
Offset == IF cfg.prog = "train" THEN TrainOffset ELSE TestOffset
FrameRecords == SelectSeq(files, LAMBDA r : r.name.kind = "frame" /\ r.name.dir = i_batch)
\* The predicted frames accumulated for the current window.
FramesAccumulated ==
    IF cfg.prog = "train" THEN Len(root_pred_list) ELSE Len(FrameRecords)
\* The rollout of the current window has ended and no later window has begun.
WindowDone ==
    \/ cfg.prog = "train" /\ pc \in OptPhases
    \/ cfg.prog = "test" /\ pc = "fetch" /\ window_no > 0
\* Where the pose of step k must come from.
SourceOf(k) == IF k = 0 THEN GT(Offset) ELSE Pred(k - 1)
InputsFrom(src) ==
    /\ root_p_t.src = src /\ root_v_t.src = src
    /\ local_q_t.src = src /\ contact_t.src = src

\* C1: in train() and in test() a window runs training_frames steps; step 0
\* alone takes root position, root velocity, local rotations and contacts from
\* ground truth, every later step takes all four from the step before it; a
\* window that has started ends with exactly training_frames predicted frames,
\* unless an assertion ends the run.
C1_Rollout ==
    /\ pc = "step" =>
          /\ t = steps_done /\ t <= cfg.training_frames
          /\ FramesAccumulated = t
          /\ cfg.prog = "train" => Len(local_q_pred_list) = t
          /\ t > 0 => InputsFrom(SourceOf(t - 1))
    /\ WindowDone =>
          /\ steps_done = cfg.training_frames
          /\ FramesAccumulated = cfg.training_frames
          /\ InputsFrom(SourceOf(cfg.training_frames - 1))
    /\ (pc = "aborted" /\ window_no > 0) =>
          /\ error = "AssertionError"
          /\ InputsFrom(SourceOf(t))

C1_Witness ==
    /\ WindowDone /\ cfg.training_frames = 2
    /\ InputsFrom(Pred(0)) /\ FramesAccumulated = 2

\* C2: whenever a recurrent step of a window has run, in train() and in
\* test() with either weight format, the recurrent state was reset by
\* init_hidden for that window before the step.
C2_HiddenResetPerWindow ==
    (pc \in {"step", "aborted"} \cup OptPhases /\ steps_done > 0)
        => hidden.window = window_no

ExpectedOrder == <<"d_zero_grad", "d_loss", "d_backward", "d_step", "g_zero_grad",
                   "g_loss", "g_backward", "clip", "g_step">>

\* C3: in a training batch the updates come after the rollout and in the
\* order: discriminator zero_grad, discriminator loss on the detached
\* generator output, one discriminator step, generator zero_grad, the
\* discriminators re-run on the attached output, one generator step.
C3_UpdateOrder ==
    /\ Len(events) <= Len(ExpectedOrder)
    /\ \A i \in 1..Len(events) : events[i].ev = ExpectedOrder[i]
    /\ events # <<>> => /\ steps_done = cfg.training_frames
                        /\ Len(fk_calls) = 1
    /\ \A i \in 1..Len(events) :
          /\ events[i].ev \in {"d_loss", "d_backward"}
                => events[i].modules = DiscriminatorParams
          /\ events[i].ev \in {"g_loss", "g_backward"}
                => events[i].modules = Modules
    /\ \A m \in GeneratorParams : "D" \notin grad[m].from
    /\ (cfg.prog = "train" /\ pc \in OptPhases)
          => /\ Len(events) < Len(ExpectedOrder)
             /\ pc = ExpectedOrder[Len(events) + 1]
    /\ (cfg.prog = "train" /\ pc = "fetch" /\ steps_done > 0)
          => Len(events) = Len(ExpectedOrder)

C3_Witness ==
    /\ cfg.prog = "train" /\ pc = "fetch" /\ Len(events) = Len(ExpectedOrder)
    /\ events[4].ev = "d_step" /\ events[9].ev = "g_step"

\* C4: at every optimizer step of a training batch the gradients of every
\* module the optimizer updates have been clipped since their backward pass.
C4_ClipBeforeStep ==
    \A i \in 1..Len(events) :
        events[i].ev \in {"d_step", "g_step"} => events[i].modules = {}

\* A batch has been fetched and its size is not the configured one.
UnderFilled == i_batch >= 0 /\ current_batch_size # cfg.batch_size
FilesOfBatch == SelectSeq(files, LAMBDA r : r.name.dir = i_batch)

\* C5 as stated: in train() and in test() a batch whose size is not the
\* configured one gets no rollout step, no optimizer event and no record.
C5_SkippedEverywhere ==
    UnderFilled => (steps_done = 0 /\ events = <<>> /\ FilesOfBatch = <<>>)

\* C5, amended: test() ends its loop at an under-filled batch without a step,
\* a record or an error, having rolled out every full batch; train() rolls
\* out and optimises on every batch, the under-filled one included, at the
\* batch's own size.
C5_SkippedInTestOnly ==
    /\ (cfg.prog = "test" /\ UnderFilled) =>
          /\ pc = "done" /\ error = "none"
          /\ steps_done = 0 /\ fk_calls = <<>> /\ FilesOfBatch = <<>>
    /\ (cfg.prog = "test" /\ pc = "done") =>
          window_no = cfg.data_len \div cfg.batch_size
    /\ (cfg.prog = "train" /\ pc = "epoch_end") =>
          window_no = (epoch + 1) * NumBatches(cfg.data_len, cfg.batch_size)
    /\ (cfg.prog = "train" /\ pc \in OptPhases) =>
          /\ steps_done = cfg.training_frames
          /\ \A k \in 1..Len(root_pred_list) :
                root_pred_list[k].shape = <<current_batch_size, root_v_dim>>

C5_Witness ==
    /\ cfg.prog = "test" /\ UnderFilled /\ pc = "done"
    /\ window_no = 1 /\ i_batch = 1

SameLetter(a, b) ==
    \/ a = b
    \/ \E i \in 1..Len(LowerChars) : {a, b} = {LowerChars[i], UpperChars[i]}
\* s spells V, in any letter case.
Spells(s, V) == Len(s) = Len(V) /\ \A i \in 1..Len(V) : SameLetter(s[i], V[i])
Warned(w) == \E i \in 1..Len(warnings) : warnings[i] = w
SelectorOk(arg, value, valid, default, warning) ==
    /\ value \in valid
    /\ IF arg.given /\ \E V \in valid : Spells(arg.s, V)
       THEN Spells(arg.s, value) /\ ~Warned(warning)
       ELSE value = default /\ (Warned(warning) <=> arg.given)

\* C6: whatever the two options hold (absent, valid in any letter case,
\* invalid), test() is called with dataset in {DFKI, LAFAN} and filetype in
\* {ONNX, PKL}: the valid value upper-cased, else the default, with a warning
\* exactly when a value was given and is invalid.
C6_Selectors ==
    pc = "test" =>
        /\ error = "none"
        /\ SelectorOk(args.Dataset, d, {DFKI, LAFAN}, DFKI, "dataset")
        /\ SelectorOk(args.Filetype, f, {ONNX, PKL}, ONNX, "filetype")

C6_Witness ==
    /\ pc = "test"
    /\ args.Dataset = Str(<<"L","a","f","a","n">>) /\ d = LAFAN
    /\ args.Filetype = Str(<<"x">>) /\ f = ONNX
    /\ warnings = <<"filetype">>

BeforeLoop == {"main", "test", "load", "aborted"}

\* C7: with the frozen-graph format the five inference modules are loaded and
\* validated before the first batch is fetched; a malformed one ends the run
\* before any batch, rollout step or record.
C7_LoadBeforeRollout ==
    (cfg.prog = "test" /\ f = ONNX) =>
        /\ pc \notin BeforeLoop => (loaded = Generator /\ cfg.malformed = "none")
        /\ (i_batch >= 0 \/ steps_done > 0 \/ files # <<>>) => loaded = Generator
        /\ error = "LoadError" =>
              /\ i_batch < 0 /\ window_no = 0 /\ steps_done = 0 /\ files = <<>>
              /\ Len(loaded) < Len(Generator)
              /\ cfg.malformed = Generator[Len(loaded) + 1]
        /\ cfg.malformed # "none" => pc \in BeforeLoop

C7_Witness ==
    /\ cfg.prog = "test" /\ f = ONNX /\ error = "LoadError"
    /\ cfg.malformed = "decoder" /\ Len(loaded) = 4 /\ cfg.data_len > 0

\* C8: train() draws the target noise once per window, before the first step,
\* and every step of the window adds that draw, scaled by
\* noise_injector(t, training_frames); test() draws and adds none.
C8_NoisePerWindow ==
    /\ cfg.prog = "train" =>
          /\ \A i \in 1..Len(noise_added) :
                noise_added[i] = [id |-> target_noise, t |-> i - 1,
                                  length |-> cfg.training_frames]
          /\ pc \in {"step"} \cup OptPhases =>
                /\ Len(noise_added) = steps_done
                /\ target_noise = window_no /\ noise_draws = window_no
          /\ pc \in {"init_hidden", "noise"} => noise_draws = window_no - 1
    /\ cfg.prog = "test" => (noise_added = <<>> /\ noise_draws = 0)

C8_Witness ==
    /\ cfg.prog = "train" /\ pc = "step" /\ t = 2 /\ window_no = 2
    /\ Len(noise_added) = 2 /\ noise_added[2].id = 2

\* C9 as stated: forward kinematics runs once per window, after the rollout,
\* never inside the step loop, in train() and in test().
C9_OneCallAfterRollout ==
    /\ Len(fk_calls) <= 1
    /\ \A i \in 1..Len(fk_calls) :
          ~fk_calls[i].in_loop /\ fk_calls[i].after = cfg.training_frames
    /\ WindowDone => Len(fk_calls) = 1

\* C9, amended: train() runs forward kinematics once per window, after the last
\* step, on the stacked training_frames frames; test() runs it inside the
\* loop, once per step, on that step's single frame.
C9_BatchedInTrainOnly ==
    /\ cfg.prog = "train" =>
          /\ pc = "step" => fk_calls = <<>>
          /\ pc \in OptPhases =>
                fk_calls = <<[in_loop |-> FALSE, frames |-> cfg.training_frames,
                              after |-> cfg.training_frames]>>
    /\ cfg.prog = "test" =>
          /\ Len(fk_calls) = steps_done
          /\ \A i \in 1..Len(fk_calls) :
                fk_calls[i] = [in_loop |-> TRUE, frames |-> 1, after |-> i - 1]

C9_Witness ==
    /\ cfg.prog = "test" /\ pc = "fetch" /\ Len(fk_calls) = 2
    /\ fk_calls[2].in_loop

ZeroResiduals == \A k \in 1..Len(decoded) : decoded[k].root = 0
Running == pc \in {"step"} \cup OptPhases \/ (cfg.prog = "test" /\ pc = "fetch")

\* C10: the predicted root position of a step is the step's input root
\* position plus the decoder's root block; when the decoder's root block is
\* zero at every step, every accumulated frame holds the root position of the
\* ground-truth teacher frame.
C10_ResidualRoot ==
    (Running /\ steps_done > 0) =>
        /\ \A i \in 1..current_batch_size :
              root_pred.v[i] = root_p_t.v[i] + root_v_pred.v[i]
        /\ ZeroResiduals =>
              /\ \A k \in 1..Len(root_pred_list) : \A i \in 1..current_batch_size :
                    cfg.prog = "train" =>
                       root_pred_list[k].v[i]
                          = RootGT(sampled_batch[i], TrainOffset)
              /\ \A k \in 1..Len(FrameRecords) :
                    FrameRecords[k].root_pos.v
                       = <<RootGT(sampled_batch[cfg.inference_batch_index + 1],
                                  TestOffset)>>

C10_Witness ==
    /\ cfg.prog = "train" /\ pc = "d_zero_grad" /\ cfg.training_frames = 2
    /\ ZeroResiduals /\ Len(root_pred_list) = 2 /\ current_batch_size = 2
    /\ sampled_batch = <<2, 1>>
    /\ root_pred_list[2].v = <<RootGT(2, TrainOffset), RootGT(1, TrainOffset)>>

\* Every quaternion of x has L2 norm 1: its w is 1 or -1.
UnitQuat(x) == \A i \in 1..Len(x.v) : x.v[i] \in {1, 0 - 1}

\* C11: after every decode step the normalised prediction, every frame
\* appended to the output sequence of train() and every frame record written
\* by test() hold only quaternions of L2 norm 1.
C11_UnitNorm ==
    /\ (Running /\ steps_done > 0) => UnitQuat(local_q_pred_)
    /\ \A k \in 1..Len(local_q_pred_list) : UnitQuat(local_q_pred_list[k])
    /\ \A k \in 1..Len(FrameRecords) : UnitQuat(FrameRecords[k].local_q)

Optimizers == {"generator_optimizer", "discriminator_optimizer"}
\* Epochs whose end-of-epoch code has run.
EpochsEnded == epoch

\* C12: in train() the bundles written so far are, in order, exactly those of
\* the ended epochs n (1-based) that are multiples of the save interval, one
\* directory per n; each holds the parameters of all seven modules, and both
\* optimizer states exactly when save_optimizer is set; a run that completes
\* its E epochs has written E \div K bundles.
C12_Checkpoints ==
    cfg.prog = "train" =>
        /\ Len(saved) = EpochsEnded \div cfg.weight_save_interval
        /\ \A i \in 1..Len(saved) :
              /\ saved[i].epoch = i * cfg.weight_save_interval
              /\ Modules \subseteq saved[i].pkl
              /\ IF cfg.save_optimizer
                 THEN saved[i].pkl = Modules \cup Optimizers
                 ELSE saved[i].pkl = Modules
        /\ pc = "done" =>
              /\ epoch = cfg.epochs
              /\ \A n \in 1..cfg.epochs :
                    (n % cfg.weight_save_interval = 0)
                       <=> \E i \in 1..Len(saved) : saved[i].epoch = n

C12_Witness ==
    /\ cfg.prog = "train" /\ pc = "done" /\ cfg.epochs = 2
    /\ cfg.weight_save_interval = 2 /\ cfg.save_optimizer
    /\ Len(saved) = 1 /\ saved[1].epoch = 2
    /\ saved[1].pkl = Modules \cup Optimizers

RECURSIVE SumQ(_), SumRoot(_)
\* The decoder's rotation / root blocks of the first k steps, summed.
SumQ(k) == IF k = 0 THEN 0 ELSE SumQ(k - 1) + decoded[k].q
SumRoot(k) == IF k = 0 THEN 0 ELSE SumRoot(k - 1) + decoded[k].root
Exported == sampled_batch[cfg.inference_batch_index + 1]
\* The file names of a per-sample directory after k steps, in writing order.
NamesAfter(k) ==
    IF k = 0 THEN <<>>
    ELSE <<[dir |-> i_batch, kind |-> "start", t |-> 0],
           [dir |-> i_batch, kind |-> "target", t |-> 0]>>
         \o [j \in 1..k |-> [dir |-> i_batch, kind |-> "frame", t |-> j - 1]]

\* C13: in test() the writes into the per-sample directory of the current
\* window are, in order, start and target (at step 0 only) and then one
\* frame record per executed step t, named after t and written once; after
\* the window they are exactly start, target and frames 0..training_frames-1;
\* the record of step t holds that step's normalised rotations and root
\* position of the exported sample: the rotations of all joints, shape
\* (num_joints, 4), and the three root coordinates, shape (3,).
C13_FrameRecords ==
    (cfg.prog = "test" /\ (pc = "step" \/ WindowDone)) =>
        /\ Len(files) = Len(NamesAfter(steps_done))
        /\ \A i \in 1..Len(files) : files[i].name = NamesAfter(steps_done)[i]
        /\ WindowDone => steps_done = cfg.training_frames
        /\ \A k \in 1..Len(FrameRecords) :
              LET r == FrameRecords[k]
              IN  /\ r.name.t = k - 1
                  /\ r.local_q.src = Pred(k - 1) /\ r.root_pos.src = Pred(k - 1)
                  /\ r.local_q.v = <<unit(QuatGT(Exported, TestOffset) + SumQ(k))>>
                  /\ r.root_pos.v = <<RootGT(Exported, TestOffset) + SumRoot(k)>>
                  /\ r.local_q.shape = <<num_joints, 4>>
                  /\ r.root_pos.shape = <<root_v_dim>>

\* A one-sample batch has completed its window: the frame record holds one
\* joint's quaternion and one root coordinate.
C13_Witness ==
    /\ cfg.prog = "test" /\ WindowDone /\ cfg.batch_size = 1
    /\ cfg.training_frames = 1 /\ Len(FrameRecords) = 1
    /\ FrameRecords[1].name.t = 0
    /\ FrameRecords[1].local_q.shape = <<4>>
    /\ FrameRecords[1].root_pos.shape = <<>>

\* No step of the window summed a rotation to the zero quaternion.
NoZeroSum == \A k \in 1..Len(decoded) : QuatGT(Exported, Offset) + SumQ(k) # 0

\* C14: once a step t > 0 has run, the local rotations and the root position
\* it took as input are those of the frame step t-1 accumulated: the entry of
\* the output lists in train(), the frame record of the exported sample in
\* test() (stated for windows whose normalisation never divided by zero).
C14_FeedsBackAccumulated ==
    (Running /\ steps_done >= 2 /\ NoZeroSum) =>
        LET prev == steps_done - 1
        IN  /\ cfg.prog = "train" =>
                  /\ root_p_t.v = root_pred_list[prev].v
                  /\ local_q_t.v = local_q_pred_list[prev].v
            /\ cfg.prog = "test" =>
                  /\ <<root_p_t.v[cfg.inference_batch_index + 1]>>
                        = FrameRecords[prev].root_pos.v
                  /\ <<local_q_t.v[cfg.inference_batch_index + 1]>>
                        = FrameRecords[prev].local_q.v

\* C15: the time-to-arrival of the step that ran last is training_frames - t
\* (so it falls by one per step), it lies in 1..max_len of the table that was
\* precomputed with max_len = training_frames, no lookup fails, and it is the
\* number of frames from the frame the step is at (its input frame) to the
\* target frame: the last frame of the window or, in test(), the frame of
\* target_pose.
C15_TimeToArrival ==
    /\ error # "IndexError"
    /\ (Running /\ steps_done > 0) =>
          LET step == steps_done - 1
          IN  /\ tta = cfg.training_frames - step
              /\ tta >= 1 /\ tta <= pe_max_len /\ pe_defined(tta)
              /\ \/ tta = last_frame - (Offset + step)
                 \/ cfg.prog = "test" /\ tta = target_pose_frame - (Offset + step)

\* The last step of a test() window has run: its input frame is the frame of
\* target_pose, no frame remains, and the time-to-arrival it was given is 1.
C15_Witness ==
    /\ cfg.prog = "test" /\ WindowDone /\ steps_done = cfg.training_frames
    /\ cfg.training_frames = 2 /\ tta = 1
    /\ root_p_t.src = Pred(0)
    /\ target_pose_frame - (Offset + (steps_done - 1)) = 0
    /\ files[2].root_pos.src = GT(target_pose_frame)
    /\ last_frame - (Offset + (steps_done - 1)) = 40

StartPose == GT(TestOffset)
PredictedAt(step) == [kind |-> "fk", at |-> step]

\* C16: in test() no run ends at the pose-stack assertion (an AssertionError
\* is always the shape assertion on the root position); at the start of every
\* step the stack holds one pose, the ground-truth start pose at t = 0 and
\* the pose predicted at step t-1 after that; the pose plotted at step t is
\* that pose, so the pose predicted at the last step stays on the stack and
\* is never plotted.
C16_PoseStack ==
    cfg.prog = "test" =>
        /\ error = "AssertionError" => root_p_offset.shape # root_p_t.shape
        /\ (pc = "step" \/ WindowDone) =>
              /\ pose_stack = <<IF steps_done = 0 THEN StartPose
                                ELSE PredictedAt(steps_done - 1)>>
              /\ Len(img_pred) = steps_done
              /\ \A i \in 1..Len(img_pred) :
                    img_pred[i] = [t |-> i - 1,
                                   pose |-> IF i = 1 THEN StartPose
                                            ELSE PredictedAt(i - 2)]
        /\ WindowDone =>
              \A i \in 1..Len(img_pred) :
                  img_pred[i].pose # PredictedAt(cfg.training_frames - 1)

C16_Witness ==
    /\ cfg.prog = "test" /\ WindowDone /\ cfg.training_frames = 2
    /\ pose_stack = <<PredictedAt(1)>>
    /\ Len(img_pred) = 2 /\ img_pred[2].pose = PredictedAt(0)

InBatchLoop == pc \in {"fetch", "init_hidden", "noise", "step"} \cup OptPhases

\* C17: throughout the batch loop of every training epoch all seven trained
\* modules (three encoders, lstm, decoder, both discriminators) are in
\* training mode, also in the epochs after a checkpoint export.
C17_TrainingMode ==
    (cfg.prog = "train" /\ InBatchLoop) => \A m \in Modules : mode[m] = "train"

RecordsOfKind(kind) == SelectSeq(files, LAMBDA r : r.name.kind = kind)

\* C18: in every start record test() writes, the local rotations and the
\* root position come from one ground-truth frame, the teacher frame of step
\* 0; in every target record they come from one ground-truth frame.
C18_RecordsFromOneFrame ==
    cfg.prog = "test" =>
        /\ \A i \in 1..Len(RecordsOfKind("start")) :
              LET r == RecordsOfKind("start")[i]
              IN  /\ r.local_q.src = r.root_pos.src
                  /\ r.root_pos.src = SourceOf(0)
        /\ \A i \in 1..Len(RecordsOfKind("target")) :
              LET r == RecordsOfKind("target")[i]
              IN  r.local_q.src = r.root_pos.src

====
